---- MODULE Spec2Model ----
(***************************************************************************)
(* Model of the WASI I/O binding layer of src/assembly/wasa.ts: class IO   *)
(* (write, writeString, writeStringLn, read, readAll, readString) over the *)
(* host primitives fd_write / fd_read and the allocation service           *)
(* memory.allocate / memory.free.                                          *)
(*                                                                         *)
(* One invocation runs at a time (the program is single threaded).  An     *)
(* operation is split at its host calls: the action named after the        *)
(* operation runs the code up to the first host call, the action named     *)
(* <operation>_fd_write / <operation>_fd_read performs one host call and   *)
(* everything the code does after it up to the next host call or the       *)
(* return.                                                                 *)
(*                                                                         *)
(* heap holds the regions allocated by the current invocation; an address  *)
(* is the index of its region.  No pointer outlives the invocation that    *)
(* allocated it, so regions of earlier invocations are not kept.           *)
(*                                                                         *)
(* The stream behind a descriptor is a pipe: fd_write appends the bytes    *)
(* the host accepts, fd_read delivers and removes the oldest bytes, and a  *)
(* read of an empty stream reports end of stream.                          *)
(***************************************************************************)
EXTENDS Integers, Sequences, FiniteSets, TLC

\* ------------------------------------------------------------------ bounds
MaxData == 2        \* longest byte sequence a caller passes to write
MaxText == 1        \* longest text, in characters, a caller passes
MaxChunk == 2       \* largest explicit chunk size a caller passes
MaxStream == 2      \* most unread bytes a stream holds
MaxGarbage == 1     \* largest value a never-written count slot is taken to hold

\* ------------------------------------------------------- program constants
SizeofUsize == 4    \* sizeof<usize>() on wasm32
LF == 10            \* the newline byte stored by writeStringLn
DefaultChunk == 4096
SUCCESS == 0        \* errno.SUCCESS
EIO == 29           \* a non-success errno
StdIn == 0
StdOut == 1
StdErr == 2

FDS == {StdIn, StdOut, StdErr}

\* raw byte values callers write
Bytes == {LF, 65}

\* characters callers use, each a sequence of UTF-16 code units:
\* "A" (1 byte) and e-acute (2 bytes)
Chars == { <<65>>, <<233>> }

RECURSIVE SeqsUpTo(_, _)
SeqsUpTo(S, n) ==
  IF n = 0 THEN { <<>> }
  ELSE LET shorter == SeqsUpTo(S, n - 1)
       IN  shorter \cup { Append(q, x) : q \in shorter, x \in S }

RECURSIVE Flatten(_)
Flatten(ss) == IF ss = <<>> THEN <<>> ELSE Head(ss) \o Flatten(Tail(ss))

ByteSeqs == SeqsUpTo(Bytes, MaxData)
Texts == { Flatten(cs) : cs \in SeqsUpTo(Chars, MaxText) }
Chunks == 1..MaxChunk
Targets == { <<>>, <<7>> }

VARIABLES
  pc,      \* where the current invocation stands; "idle" between invocations
  op,      \* the operation invoked last and its arguments
  loc,     \* the local variables of the invocation
  heap,    \* regions allocated by the invocation, indexed by address
  stream,  \* per descriptor: the bytes emitted to it and not yet read
  sys,     \* the host calls the invocation has made, in order
  ret,     \* what the last invocation returned
  last     \* the write the last invocation was, when it filled an empty stream

vars == <<pc, op, loc, heap, stream, sys, ret, last>>

\* ------------------------------------------------------------------ memory
NoCells == [o \in {} |-> 0]

\* memory.allocate(size): a fresh region of the requested size, nothing written
Allocate(h, size) == Append(h, [size |-> size, frees |-> 0, cells |-> NoCells])

\* the address memory.allocate(size) returns on heap h
NewAddr(h) == Len(h) + 1

\* memory.free(a)
Free(h, a) == [h EXCEPT ![a].frees = @ + 1]

\* store<u8>/store<u32>(a + off, v)
Store(h, a, off, v) == [h EXCEPT ![a].cells = (off :> v) @@ @]

\* copy the sequence bs into region a from offset 0 on (the code's byte loops)
StoreBytes(h, a, bs) ==
  [h EXCEPT ![a].cells = [o \in 0..(Len(bs) - 1) |-> bs[o + 1]] @@ @]

Live(h, a) == a \in 1..Len(h) /\ h[a].frees = 0

\* the values load<T>(a + off) can yield: the value stored there, or any value
\* of the set junk when nothing was ever stored there
Loads(h, a, off, junk) ==
  IF a \in 1..Len(h) /\ off \in DOMAIN h[a].cells THEN { h[a].cells[off] } ELSE junk

\* the bytes a read of n bytes from offset 0 of region a can yield
RECURSIVE LoadSeqs(_, _, _, _)
LoadSeqs(h, a, n, junk) ==
  IF n = 0 THEN { <<>> }
  ELSE { Append(q, v) : q \in LoadSeqs(h, a, n - 1, junk), v \in Loads(h, a, n - 1, junk) }

\* -------------------------------------------------- text <-> UTF-8 (stdlib)
\* c is a high surrogate (0xD800..0xDBFF), a low surrogate (0xDC00..0xDFFF)
IsHighSurrogate(c) == c \div 1024 = 54
IsLowSurrogate(c) == c \div 1024 = 55

\* the bytes String#toUTF8 stores for the code units of s from position pos on,
\* without the terminating zero
RECURSIVE EncodeFrom(_, _)
EncodeFrom(s, pos) ==
  IF pos > Len(s) THEN <<>>
  ELSE LET c1 == s[pos] IN
    IF c1 < 128 THEN <<c1>> \o EncodeFrom(s, pos + 1)
    ELSE IF c1 < 2048
      THEN <<(c1 \div 64) + 192, (c1 % 64) + 128>> \o EncodeFrom(s, pos + 1)
    ELSE IF IsHighSurrogate(c1) /\ pos + 1 <= Len(s) /\ IsLowSurrogate(s[pos + 1])
      THEN LET cp == 65536 + (c1 % 1024) * 1024 + (s[pos + 1] % 1024)
           IN  <<(cp \div 262144) + 240, ((cp \div 4096) % 64) + 128,
                 ((cp \div 64) % 64) + 128, (cp % 64) + 128>> \o EncodeFrom(s, pos + 2)
    ELSE <<(c1 \div 4096) + 224, ((c1 \div 64) % 64) + 128, (c1 % 64) + 128>>
           \o EncodeFrom(s, pos + 1)

\* String#lengthUTF8: the encoded length, counting the terminating zero
RECURSIVE LengthFrom(_, _)
LengthFrom(s, pos) ==
  IF pos > Len(s) THEN 1
  ELSE LET c == s[pos] IN
    IF c < 128 THEN 1 + LengthFrom(s, pos + 1)
    ELSE IF c < 2048 THEN 2 + LengthFrom(s, pos + 1)
    ELSE IF IsHighSurrogate(c) /\ pos + 1 <= Len(s) /\ IsLowSurrogate(s[pos + 1])
      THEN 4 + LengthFrom(s, pos + 2)
    ELSE 3 + LengthFrom(s, pos + 1)

lengthUTF8(s) == LengthFrom(s, 1)

\* String#toUTF8: the content of the buffer it allocates (zero terminated)
toUTF8(s) == EncodeFrom(s, 1) \o <<0>>

\* the marker a decoded text ends with when the decoder's assertion fails
Trap == -1

\* String.fromUTF8 on the bytes bs from position pos on
RECURSIVE DecodeFrom(_, _)
DecodeFrom(bs, pos) ==
  IF pos > Len(bs) THEN <<>>
  ELSE LET cp == bs[pos] IN
    IF cp < 128 THEN <<cp>> \o DecodeFrom(bs, pos + 1)
    ELSE IF cp > 191 /\ cp < 224
      THEN IF pos + 1 > Len(bs) THEN <<Trap>>
           ELSE <<(cp % 32) * 64 + (bs[pos + 1] % 64)>> \o DecodeFrom(bs, pos + 2)
    ELSE IF cp > 239 /\ cp < 365
      THEN IF pos + 3 > Len(bs) THEN <<Trap>>
           ELSE LET u == (cp % 8) * 262144 + (bs[pos + 1] % 64) * 4096
                         + (bs[pos + 2] % 64) * 64 + (bs[pos + 3] % 64) - 65536
                IN  <<55296 + (u \div 1024), 56320 + (u % 1024)>> \o DecodeFrom(bs, pos + 4)
    ELSE IF pos + 2 > Len(bs) THEN <<Trap>>
         ELSE <<(cp % 16) * 4096 + (bs[pos + 1] % 64) * 64 + (bs[pos + 2] % 64)>>
                \o DecodeFrom(bs, pos + 3)

fromUTF8(bs) == IF Len(bs) < 1 THEN <<>> ELSE DecodeFrom(bs, 1)

Trapped(t) == \E i \in 1..Len(t) : t[i] = Trap

\* -------------------------------------------------------------------- host
\* entry i (1-based) of the iovec array at address iov: {buf: u32, buf_len: u32}
IovEntry(h, iov, i) ==
  [ buf |-> h[iov].cells[(i - 1) * 2 * SizeofUsize],
    len |-> h[iov].cells[(i - 1) * 2 * SizeofUsize + SizeofUsize] ]

\* the n entries the host takes from the array at iov
Iovs(h, iov, n) == [ i \in 1..n |-> IovEntry(h, iov, i) ]

\* the bytes of len cells of region a from offset 0 on
RegionBytes(h, a, len) == [ j \in 1..len |-> h[a].cells[j - 1] ]

\* the bytes the regions of vec hold, region after region
RECURSIVE Gather(_, _)
Gather(h, vec) ==
  IF vec = <<>> THEN <<>>
  ELSE RegionBytes(h, Head(vec).buf, Head(vec).len) \o Gather(h, Tail(vec))

\* the bytes bs placed into the regions of vec, region after region
RECURSIVE Scatter(_, _, _)
Scatter(h, vec, bs) ==
  IF vec = <<>> \/ bs = <<>> THEN h
  ELSE LET e == Head(vec)
           k == IF Len(bs) < e.len THEN Len(bs) ELSE e.len
       IN  Scatter(StoreBytes(h, e.buf, SubSeq(bs, 1, k)), Tail(vec),
                   SubSeq(bs, k + 1, Len(bs)))

RECURSIVE VecLen(_)
VecLen(vec) == IF vec = <<>> THEN 0 ELSE Head(vec).len + VecLen(Tail(vec))

Min(a, b) == IF a < b THEN a ELSE b

\* the stream of fd has room for n more bytes; one stream at a time holds
\* unread bytes
Room(fd, n) ==
  /\ Len(stream[fd]) + n <= MaxStream
  /\ \A d \in FDS \ {fd} : stream[d] = <<>>

Statuses == {SUCCESS, EIO}

\* the record kept of one host call
SysRec(call, fd, iov, n, st, count, bytes) ==
  [ call |-> call, fd |-> fd, iov |-> iov, n |-> n, vec |-> Iovs(heap, iov, n),
    status |-> st, count |-> count, bytes |-> bytes,
    alive |-> /\ Live(heap, iov)
              /\ \A i \in 1..n : Live(heap, IovEntry(heap, iov, i).buf),
    stored |-> Cardinality(DOMAIN heap[iov].cells) \div 2 ]

\* the counts fd_write may report for a vector holding total bytes
WriteCounts(st, total) == IF st = SUCCESS THEN 0..total ELSE {0}

\* the counts fd_read may report: at most the vector's capacity and what is
\* unread, at least one byte while bytes are unread, nothing on failure
ReadCounts(st, fd, cap) ==
  LET avail == Len(stream[fd]) IN
  IF st # SUCCESS \/ avail = 0 THEN {0} ELSE 1..Min(cap, avail)

\* the heap after fd_write(fd, iov, n, ptr) returned st with count k
HeapAfterWrite(h, ptr, st, k) == IF st = SUCCESS THEN Store(h, ptr, 0, k) ELSE h

\* the heap after fd_read(fd, iov, n, ptr) returned st with count k: the bytes
\* delivered are in the vector's regions and the count at ptr; a failed call
\* leaves the memory as it was
HeapAfterRead(h, fd, iov, n, ptr, st, k) ==
  IF st = SUCCESS
    THEN Store(Scatter(h, Iovs(h, iov, n), SubSeq(stream[fd], 1, k)), ptr, 0, k)
    ELSE h

\* ------------------------------------------------------------------- state
Other == [by |-> "other", fd |-> 0, data |-> <<>>]
NoOp == [entry |-> "none", fd |-> 0, data |-> <<>>, s |-> <<>>, newline |-> FALSE, chunk |-> 0,
         pre |-> <<>>, src |-> Other]
NoLoc == [buf |-> 0, iov |-> 0, ptr |-> 0, lf |-> 0, len |-> 0, data |-> <<>>, read |-> 0]
NoRet == [kind |-> "none", val |-> <<>>]

Init ==
  /\ pc = "idle"
  /\ op = NoOp
  /\ loc = NoLoc
  /\ heap = <<>>
  /\ stream = [d \in FDS |-> <<>>]
  /\ sys = <<>>
  /\ ret = NoRet
  /\ last = Other

\* an invocation starts: no host call made, nothing returned yet; pre and src
\* keep what the stream of its descriptor held, and the invocation before
Enter(o) ==
  /\ pc = "idle"
  /\ op' = [o EXCEPT !.pre = stream[o.fd], !.src = last]
  /\ sys' = <<>>
  /\ ret' = NoRet
  /\ UNCHANGED <<stream, last>>

\* what is remembered of the current invocation once its write call submitted
\* bytes and the host took k of them: its argument, when it is a write or a
\* writeString without newline that filled the empty stream of fd
WroteAfter(fd, bytes, k, what) ==
  IF stream[fd] = <<>> /\ k = Len(bytes) /\ op.entry \in {"write", "writeString"}
       /\ ~op.newline
    THEN [by |-> op.entry, fd |-> fd, data |-> what]
    ELSE Other

\* fd_write(fd, iov, n, ptr) as the host performs it, reporting st and k
HostWrite(fd, iov, n, st, k, what) ==
  LET bytes == Gather(heap, Iovs(heap, iov, n)) IN
  /\ k \in WriteCounts(st, Len(bytes))
  /\ stream' = [stream EXCEPT ![fd] = @ \o SubSeq(bytes, 1, k)]
  /\ sys' = Append(sys, SysRec("fd_write", fd, iov, n, st, k, bytes))
  /\ last' = WroteAfter(fd, bytes, k, what)

\* fd_read(fd, iov, n, ptr) as the host performs it, reporting st and k
HostRead(fd, iov, n, st, k) ==
  /\ k \in ReadCounts(st, fd, VecLen(Iovs(heap, iov, n)))
  /\ stream' = [stream EXCEPT ![fd] = SubSeq(@, k + 1, Len(@))]
  /\ sys' = Append(sys, SysRec("fd_read", fd, iov, n, st, k, SubSeq(stream[fd], 1, k)))
  /\ last' = Other

\* ---------------------------------------------------------------- IO.write
\* writeStage with a terminator byte staged and counted after the data
writeStage_terminated(data) ==
  [size |-> Len(data) + 1, bytes |-> data \o <<0>>, len |-> Len(data) + 1]

\* lines 44-48, 51: the size asked for the data buffer, the bytes copied into
\* it, the length put into the vector entry
writeStage(data) == [size |-> Len(data), bytes |-> data, len |-> Len(data)]

\* lines 44-52: stage the bytes, build the one-entry vector
writeBody(fd, data) ==
  LET data_buf_len == writeStage(data).len
      data_buf == NewAddr(<<>>)
      h1 == StoreBytes(Allocate(<<>>, writeStage(data).size), data_buf, writeStage(data).bytes)
      iov == NewAddr(h1)
      h2 == Store(Store(Allocate(h1, 2 * SizeofUsize), iov, 0, data_buf),
                  iov, SizeofUsize, data_buf_len)
      written_ptr == NewAddr(h2)
  IN  /\ heap' = Allocate(h2, SizeofUsize)
      /\ loc' = [NoLoc EXCEPT !.buf = data_buf, !.iov = iov, !.ptr = written_ptr,
                              !.len = data_buf_len]
      /\ pc' = "write_sys"

write(fd, data) ==
  /\ Room(fd, Len(data))
  /\ Enter([NoOp EXCEPT !.entry = "write", !.fd = fd, !.data = data])
  /\ writeBody(fd, data)

\* lines 54-55
writeFrees(h, l) == Free(Free(h, l.ptr), l.buf)

\* write_fd_write calling the host again when it accepted less than the vector
write_fd_write_retry(st, k) ==
  /\ pc = "write_sys"
  /\ HostWrite(op.fd, loc.iov, 1, st, k, op.data)
  /\ IF st = SUCCESS /\ k < loc.len
       THEN /\ heap' = HeapAfterWrite(heap, loc.ptr, st, k)
            /\ UNCHANGED <<ret, pc>>
       ELSE /\ heap' = writeFrees(HeapAfterWrite(heap, loc.ptr, st, k), loc)
            /\ ret' = [kind |-> "void", val |-> <<>>]
            /\ pc' = "idle"
  /\ UNCHANGED <<op, loc>>

\* lines 53-56: the host call, the frees, the return
write_fd_write(st, k) ==
  /\ pc = "write_sys"
  /\ HostWrite(op.fd, loc.iov, 1, st, k, op.data)
  /\ heap' = writeFrees(HeapAfterWrite(heap, loc.ptr, st, k), loc)
  /\ ret' = [kind |-> "void", val |-> <<>>]
  /\ pc' = "idle"
  /\ UNCHANGED <<op, loc>>

\* -------------------------------------------------------- IO.writeStringLn
\* encodeStage with the terminating zero counted into the vector entry
encodeStage_withTerminator(s) ==
  [size |-> lengthUTF8(s), bytes |-> toUTF8(s), len |-> lengthUTF8(s)]

\* lines 69-70 and 86-87: the size of the buffer toUTF8 allocates, the bytes it
\* holds, the length put into the vector entry
encodeStage(s) == [size |-> lengthUTF8(s), bytes |-> toUTF8(s), len |-> lengthUTF8(s) - 1]

\* newlineEntry with a carriage return (13) stored for the newline
newlineEntry_carriageReturn(h, iov, lf) ==
  Store(Store(Store(Allocate(h, 1), lf, 0, 13), iov, SizeofUsize * 2, lf),
        iov, SizeofUsize * 3, 1)

\* lines 91-94: the newline region and the second vector entry
newlineEntry(h, iov, lf) ==
  Store(Store(Store(Allocate(h, 1), lf, 0, LF), iov, SizeofUsize * 2, lf),
        iov, SizeofUsize * 3, 1)

\* writeStringLnBody with the newline stored as the first entry of the vector
writeStringLnBody_newlineFirst(fd, s) ==
  LET s_utf8_len == encodeStage(s).len
      s_utf8 == NewAddr(<<>>)
      h1 == StoreBytes(Allocate(<<>>, encodeStage(s).size), s_utf8, encodeStage(s).bytes)
      iov == NewAddr(h1)
      h2 == Store(Store(Allocate(h1, 4 * SizeofUsize), iov, SizeofUsize * 2, s_utf8),
                  iov, SizeofUsize * 3, s_utf8_len)
      lf == NewAddr(h2)
      h4 == Store(Store(Store(Allocate(h2, 1), lf, 0, LF), iov, 0, lf),
                  iov, SizeofUsize, 1)
      written_ptr == NewAddr(h4)
  IN  /\ heap' = Allocate(h4, SizeofUsize)
      /\ loc' = [NoLoc EXCEPT !.buf = s_utf8, !.iov = iov, !.ptr = written_ptr,
                              !.lf = lf, !.len = s_utf8_len]
      /\ pc' = "writeStringLn_sys"

\* lines 86-95: encode, build the two-entry vector (text, newline)
writeStringLnBody(fd, s) ==
  LET s_utf8_len == encodeStage(s).len
      s_utf8 == NewAddr(<<>>)
      h1 == StoreBytes(Allocate(<<>>, encodeStage(s).size), s_utf8, encodeStage(s).bytes)
      iov == NewAddr(h1)
      h2 == Store(Store(Allocate(h1, 4 * SizeofUsize), iov, 0, s_utf8),
                  iov, SizeofUsize, s_utf8_len)
      lf == NewAddr(h2)
      h4 == newlineEntry(h2, iov, lf)
      written_ptr == NewAddr(h4)
  IN  /\ heap' = Allocate(h4, SizeofUsize)
      /\ loc' = [NoLoc EXCEPT !.buf = s_utf8, !.iov = iov, !.ptr = written_ptr,
                              !.lf = lf, !.len = s_utf8_len]
      /\ pc' = "writeStringLn_sys"

writeStringLn(fd, s) ==
  /\ Room(fd, lengthUTF8(s) - 1 + 1)
  /\ Enter([NoOp EXCEPT !.entry = "writeStringLn", !.fd = fd, !.s = s, !.newline = TRUE])
  /\ writeStringLnBody(fd, s)

\* lines 97-98
writeStringLnFrees(h, l) == Free(Free(h, l.ptr), l.buf)

\* writeStringLn_fd_write passing an entry count of one for the two entries
writeStringLn_fd_write_oneEntry(st, k) ==
  /\ pc = "writeStringLn_sys"
  /\ HostWrite(op.fd, loc.iov, 1, st, k, op.s)
  /\ heap' = writeStringLnFrees(HeapAfterWrite(heap, loc.ptr, st, k), loc)
  /\ ret' = [kind |-> "void", val |-> <<>>]
  /\ pc' = "idle"
  /\ UNCHANGED <<op, loc>>

\* lines 96-99
writeStringLn_fd_write(st, k) ==
  /\ pc = "writeStringLn_sys"
  /\ HostWrite(op.fd, loc.iov, 2, st, k, op.s)
  /\ heap' = writeStringLnFrees(HeapAfterWrite(heap, loc.ptr, st, k), loc)
  /\ ret' = [kind |-> "void", val |-> <<>>]
  /\ pc' = "idle"
  /\ UNCHANGED <<op, loc>>

\* ---------------------------------------------------------- IO.writeString
\* lines 65-74: delegate when newline is set, else encode and build the vector
writeStringBody(fd, s, newline) ==
  IF newline THEN writeStringLnBody(fd, s)
  ELSE
    LET s_utf8_len == encodeStage(s).len
        s_utf8 == NewAddr(<<>>)
        h1 == StoreBytes(Allocate(<<>>, encodeStage(s).size), s_utf8, encodeStage(s).bytes)
        iov == NewAddr(h1)
        h2 == Store(Store(Allocate(h1, 2 * SizeofUsize), iov, 0, s_utf8),
                    iov, SizeofUsize, s_utf8_len)
        written_ptr == NewAddr(h2)
    IN  /\ heap' = Allocate(h2, SizeofUsize)
        /\ loc' = [NoLoc EXCEPT !.buf = s_utf8, !.iov = iov, !.ptr = written_ptr,
                                !.len = s_utf8_len]
        /\ pc' = "writeString_sys"

writeString(fd, s, newline) ==
  /\ Room(fd, lengthUTF8(s) - 1 + (IF newline THEN 1 ELSE 0))
  /\ Enter([NoOp EXCEPT !.entry = "writeString", !.fd = fd, !.s = s, !.newline = newline])
  /\ writeStringBody(fd, s, newline)

\* lines 76-77
writeStringFrees(h, l) == Free(Free(h, l.ptr), l.buf)

\* lines 75-78
writeString_fd_write(st, k) ==
  /\ pc = "writeString_sys"
  /\ HostWrite(op.fd, loc.iov, 1, st, k, op.s)
  /\ heap' = writeStringFrees(HeapAfterWrite(heap, loc.ptr, st, k), loc)
  /\ ret' = [kind |-> "void", val |-> <<>>]
  /\ pc' = "idle"
  /\ UNCHANGED <<op, loc>>

\* ----------------------------------------------------------------- IO.read
\* what a never-written count slot or chunk byte may hold
GarbageCounts == 0..MaxGarbage

\* lines 108-113: the chunk buffer, the one-entry vector, the count slot
readBody(fd, data, chunk_size) ==
  LET data_partial_len == chunk_size
      data_partial == NewAddr(<<>>)
      h1 == Allocate(<<>>, data_partial_len)
      iov == NewAddr(h1)
      h2 == Store(Store(Allocate(h1, 2 * SizeofUsize), iov, 0, data_partial),
                  iov, SizeofUsize, data_partial_len)
      read_ptr == NewAddr(h2)
  IN  /\ heap' = Allocate(h2, SizeofUsize)
      /\ loc' = [NoLoc EXCEPT !.buf = data_partial, !.iov = iov, !.ptr = read_ptr,
                              !.len = data_partial_len, !.data = data]
      /\ pc' = "read_sys"

read(fd, data, chunk_size) ==
  /\ Enter([NoOp EXCEPT !.entry = "read", !.fd = fd, !.data = data, !.chunk = chunk_size])
  /\ readBody(fd, data, chunk_size)

\* readPush starting at the second byte of the chunk
readPush_skipFirst(data, got) == data \o Tail(got)

\* lines 117-119: the bytes of the chunk pushed onto the target, in order
readPush(data, got) == data \o got

\* lines 121-122
readFrees(h, l) == Free(Free(h, l.ptr), l.buf)

\* readResult with the test readAll uses
readResult_negativeOnly(n, data) ==
  IF n < 0 THEN [kind |-> "null", val |-> <<>>] ELSE [kind |-> "data", val |-> data]

\* lines 124-127
readResult(n, data) ==
  IF n <= 0 THEN [kind |-> "null", val |-> <<>>] ELSE [kind |-> "data", val |-> data]

\* line 115: the count read acts on; the status of the call is not looked at
readCount(h, l, st) == Loads(h, l.ptr, 0, GarbageCounts)

\* lines 114-127: the host call, the pushes, the frees, the return
read_fd_read(st, k) ==
  /\ pc = "read_sys"
  /\ HostRead(op.fd, loc.iov, 1, st, k)
  /\ LET h == HeapAfterRead(heap, op.fd, loc.iov, 1, loc.ptr, st, k) IN
     \E n \in readCount(h, loc, st) :
       \E got \in LoadSeqs(h, loc.buf, n, Bytes) :
         /\ loc' = [loc EXCEPT !.read = n, !.data = IF n > 0 THEN readPush(@, got) ELSE @]
         /\ heap' = readFrees(h, loc)
         /\ ret' = readResult(n, loc'.data)
  /\ pc' = "idle"
  /\ UNCHANGED op

\* ------------------------------------------------ IO.readAll, IO.readString
\* lines 137-143
readAllBody(fd, data, chunk_size) ==
  LET data_partial_len == chunk_size
      data_partial == NewAddr(<<>>)
      h1 == Allocate(<<>>, data_partial_len)
      iov == NewAddr(h1)
      h2 == Store(Store(Allocate(h1, 2 * SizeofUsize), iov, 0, data_partial),
                  iov, SizeofUsize, data_partial_len)
      read_ptr == NewAddr(h2)
  IN  /\ heap' = Allocate(h2, SizeofUsize)
      /\ loc' = [NoLoc EXCEPT !.buf = data_partial, !.iov = iov, !.ptr = read_ptr,
                              !.len = data_partial_len, !.data = data, !.read = 0]
      /\ pc' = "readAll_sys"

readAll(fd, data, chunk_size) ==
  /\ Enter([NoOp EXCEPT !.entry = "readAll", !.fd = fd, !.data = data, !.chunk = chunk_size])
  /\ readAllBody(fd, data, chunk_size)

\* line 171: readString reads with readAll(fd), the defaults for the rest
readStringBody(fd, chunk_size) == readAllBody(fd, <<>>, DefaultChunk)

readString(fd, chunk_size) ==
  /\ Enter([NoOp EXCEPT !.entry = "readString", !.fd = fd, !.chunk = chunk_size])
  /\ readStringBody(fd, chunk_size)

\* readAllContinues without the test of the status
readAllContinues_ignoresStatus(st, n) == ~(n <= 0)

\* lines 145-151: does the loop go on after a call with status st and count n
readAllContinues(st, n) == st = SUCCESS /\ ~(n <= 0)

\* readAllPush with the loop starting at the second byte
readAllPush_skipFirst(data, got) == data \o Tail(got)

\* lines 152-154: the bytes of the chunk pushed onto the target, in order
readAllPush(data, got) == data \o got

\* lines 156-157
readAllFrees(h, l) == Free(Free(h, l.ptr), l.buf)

\* readAllResult with the test read uses
readAllResult_zeroIsNull(n, data) ==
  IF n <= 0 THEN [kind |-> "null", val |-> <<>>] ELSE [kind |-> "data", val |-> data]

\* lines 159-162; the count is unsigned
readAllResult(n, data) ==
  IF n < 0 THEN [kind |-> "null", val |-> <<>>] ELSE [kind |-> "data", val |-> data]

\* lines 172-184: the heap and the result of readString once readAll returned r
readStringRest(h, r) ==
  IF r.kind = "null" THEN [heap |-> h, ret |-> r]
  ELSE LET s_utf8 == r.val
           s_utf8_len == Len(s_utf8)
           s_utf8_buf == NewAddr(h)
           h1 == StoreBytes(Allocate(h, s_utf8_len), s_utf8_buf, s_utf8)
           s == fromUTF8(RegionBytes(h1, s_utf8_buf, Len(s_utf8)))
       IN  [ heap |-> Free(h1, s_utf8_buf),
             ret |-> IF Trapped(s) THEN [kind |-> "trap", val |-> <<>>]
                     ELSE [kind |-> "text", val |-> s] ]

ReadsText == {"readString", "Console.readAll"}

\* lines 145-162: one pass of the loop; on a break, the frees and the return
\* (and, under readString, the rest of readString)
readAll_fd_read(st, k) ==
  /\ pc = "readAll_sys"
  /\ HostRead(op.fd, loc.iov, 1, st, k)
  /\ LET h == HeapAfterRead(heap, op.fd, loc.iov, 1, loc.ptr, st, k) IN
     \E n \in (IF st = SUCCESS THEN Loads(h, loc.ptr, 0, GarbageCounts) ELSE {loc.read}) :
       IF readAllContinues(st, n)
         THEN \E got \in LoadSeqs(h, loc.buf, n, Bytes) :
                /\ loc' = [loc EXCEPT !.read = n, !.data = readAllPush(@, got)]
                /\ heap' = h
                /\ ret' = ret
                /\ pc' = pc
         ELSE LET h1 == readAllFrees(h, loc)
                  r == readAllResult(n, loc.data)
                  rest == readStringRest(h1, r)
              IN  /\ loc' = [loc EXCEPT !.read = n]
                  /\ heap' = IF op.entry \in ReadsText THEN rest.heap ELSE h1
                  /\ ret' = IF op.entry \in ReadsText THEN rest.ret ELSE r
                  /\ pc' = "idle"
  /\ UNCHANGED op

\* ----------------------------------------------------------------- Console
\* line 196
Console_write(s, newline) ==
  /\ Room(StdOut, lengthUTF8(s) - 1 + (IF newline THEN 1 ELSE 0))
  /\ Enter([NoOp EXCEPT !.entry = "Console.write", !.fd = StdOut, !.s = s, !.newline = newline])
  /\ writeStringBody(StdOut, s, newline)

\* line 210: write with its default newline flag
Console_log(s) ==
  /\ Room(StdOut, lengthUTF8(s) - 1 + 1)
  /\ Enter([NoOp EXCEPT !.entry = "Console.log", !.fd = StdOut, !.s = s, !.newline = TRUE])
  /\ writeStringBody(StdOut, s, TRUE)

\* Console_error writing to the output descriptor
Console_error_onStdOut(s, newline) ==
  /\ Room(StdOut, lengthUTF8(s) - 1 + (IF newline THEN 1 ELSE 0))
  /\ Enter([NoOp EXCEPT !.entry = "Console.error", !.fd = StdOut, !.s = s, !.newline = newline])
  /\ writeStringBody(StdOut, s, newline)

\* line 219
Console_error(s, newline) ==
  /\ Room(StdErr, lengthUTF8(s) - 1 + (IF newline THEN 1 ELSE 0))
  /\ Enter([NoOp EXCEPT !.entry = "Console.error", !.fd = StdErr, !.s = s, !.newline = newline])
  /\ writeStringBody(StdErr, s, newline)

\* line 203
Console_readAll ==
  /\ Enter([NoOp EXCEPT !.entry = "Console.readAll", !.fd = StdIn, !.chunk = DefaultChunk])
  /\ readStringBody(StdIn, DefaultChunk)

\* -------------------------------------------------------------------- Next

Next ==
  \/ \E fd \in FDS, data \in ByteSeqs : write(fd, data)
  \/ \E st \in Statuses, k \in 0..MaxStream : write_fd_write(st, k)
  \/ \E fd \in FDS, s \in Texts, newline \in BOOLEAN : writeString(fd, s, newline)
  \/ \E st \in Statuses, k \in 0..MaxStream : writeString_fd_write(st, k)
  \/ \E fd \in FDS, s \in Texts : writeStringLn(fd, s)
  \/ \E st \in Statuses, k \in 0..MaxStream : writeStringLn_fd_write(st, k)
  \/ \E fd \in FDS, data \in Targets, c \in Chunks : read(fd, data, c)
  \/ \E st \in Statuses, k \in 0..MaxStream : read_fd_read(st, k)
  \/ \E fd \in FDS, data \in Targets, c \in Chunks : readAll(fd, data, c)
  \/ \E fd \in FDS, c \in Chunks : readString(fd, c)
  \/ \E st \in Statuses, k \in 0..MaxStream : readAll_fd_read(st, k)
  \/ \E s \in Texts, newline \in BOOLEAN : Console_write(s, newline)
  \/ \E s \in Texts : Console_log(s)
  \/ \E s \in Texts, newline \in BOOLEAN : Console_error(s, newline)
  \/ Console_readAll

Spec == Init /\ [][Next]_vars

\* lines 144-155: the loop of readAll has no step that waits: after each pass
\* it calls fd_read again, and the host answers every call
FairSpec ==
  Init /\ [][Next]_vars
       /\ WF_vars(\E st \in Statuses, k \in 0..MaxStream : readAll_fd_read(st, k))

\* ================================================================== claims
\* the last invocation has returned
Returned == pc = "idle" /\ op.entry # "none"

\* UTF-8 of the characters callers use, written out
RefChar(c) == IF c < 128 THEN <<c>> ELSE IF c = 233 THEN <<195, 169>> ELSE <<>>

RECURSIVE RefUtf8(_)
RefUtf8(s) == IF s = <<>> THEN <<>> ELSE RefChar(Head(s)) \o RefUtf8(Tail(s))

AllSucceeded == \A i \in 1..Len(sys) : sys[i].status = SUCCESS

\* the regions the invocation allocated
Allocated == 1..Len(heap)

\* C1: when an operation has returned, every region allocated during the
\* invocation has been freed exactly once.
C1_EveryRegionFreedOnce ==
  Returned => \A a \in Allocated : heap[a].frees = 1

\* C2: writeStringLn(d, s) makes exactly one write call on d, with a two-entry
\* vector (the text region with the length of utf8(s), then a 1-byte region
\* holding 10), submitting utf8(s) followed by the byte 10.
C2_WriteStringLnOneCall ==
  (Returned /\ op.entry = "writeStringLn") =>
    /\ Len(sys) = 1
    /\ sys[1].call = "fd_write"
    /\ sys[1].fd = op.fd
    /\ sys[1].n = 2
    /\ sys[1].vec[1] = [buf |-> loc.buf, len |-> Len(RefUtf8(op.s))]
    /\ sys[1].vec[2] = [buf |-> loc.lf, len |-> 1]
    /\ loc.lf # loc.buf
    /\ heap[loc.lf].cells[0] = 10
    /\ sys[1].bytes = RefUtf8(op.s) \o <<10>>
    /\ stream[op.fd] = op.pre \o SubSeq(RefUtf8(op.s) \o <<10>>, 1, sys[1].count)

C2_Witness ==
  /\ Returned /\ op.entry = "writeStringLn" /\ op.s = <<65>>
  /\ sys[1].status = SUCCESS /\ sys[1].count = 2
  /\ stream[op.fd] = <<65, 10>>

\* C4: read on a stream at end of stream (the host call succeeds and reports
\* zero bytes) returns the no-data sentinel and leaves the target as it was.
C4_ReadAtEndOfStream ==
  (Returned /\ op.entry = "read" /\ sys[1].status = SUCCESS /\ sys[1].count = 0) =>
    /\ ret.kind = "null"
    /\ loc.data = op.data

C4_Witness ==
  /\ Returned /\ op.entry = "read" /\ op.pre = <<>> /\ op.data = <<7>>
  /\ sys[1].status = SUCCESS /\ sys[1].count = 0

\* C7: write(d, []) asks for a data buffer of size zero, submits a vector entry
\* of length zero and emits no byte to the stream of d.
C7_WriteEmpty ==
  (op.entry = "write" /\ op.data = <<>>) =>
    /\ heap[loc.buf].size = 0
    /\ heap[loc.iov].cells[SizeofUsize] = 0
    /\ Returned => /\ Len(sys) = 1
                   /\ sys[1].vec[1].len = 0
                   /\ sys[1].bytes = <<>>
                   /\ stream[op.fd] = op.pre

C7_Witness ==
  /\ Returned /\ op.entry = "write" /\ op.data = <<>> /\ op.pre = <<65>>
  /\ sys[1].status = SUCCESS

\* the bytes the successful host calls among the first n delivered, in order
RECURSIVE Delivered(_)
Delivered(n) ==
  IF n = 0 THEN <<>>
  ELSE Delivered(n - 1) \o (IF sys[n].status = SUCCESS THEN sys[n].bytes ELSE <<>>)

\* the invocation runs the loop of readAll
InReadAll == op.entry \in {"readAll", "readString", "Console.readAll"}

\* C3: readAll(d, target, c) on a stream of L unread bytes, every host read
\* succeeding, returns the target followed by all L bytes in stream order.
C3_ReadAllReadsAll ==
  (Returned /\ op.entry = "readAll" /\ AllSucceeded) =>
    /\ ret = [kind |-> "data", val |-> op.data \o op.pre]
    /\ stream[op.fd] = <<>>

\* L spans several chunks
C3_Witness ==
  /\ Returned /\ op.entry = "readAll" /\ AllSucceeded
  /\ op.pre = <<65, 10>> /\ op.chunk = 1 /\ op.data = <<7>>
  /\ Len(sys) = 3

\* L < c in one call
C3_WitnessShort ==
  /\ Returned /\ op.entry = "readAll" /\ AllSucceeded
  /\ Len(op.pre) = 1 /\ op.chunk = 2

\* L = c
C3_WitnessEqual ==
  /\ Returned /\ op.entry = "readAll" /\ AllSucceeded
  /\ Len(op.pre) = 2 /\ op.chunk = 2 /\ Len(sys) = 2

\* C5: write(d, b) onto an empty stream, the host accepting the whole vector,
\* followed by readAll(d, [], c), every host read succeeding, returns b.
C5_WriteReadAllRoundTrip ==
  (Returned /\ op.entry = "readAll" /\ op.src.by = "write" /\ op.src.fd = op.fd
     /\ op.data = <<>> /\ AllSucceeded) =>
    ret = [kind |-> "data", val |-> op.src.data]

C5_Witness ==
  /\ Returned /\ op.entry = "readAll" /\ op.src.by = "write" /\ op.src.fd = op.fd
  /\ op.data = <<>> /\ AllSucceeded
  /\ op.src.data = <<10, 65>> /\ ret.val = <<10, 65>>

\* the empty sequence goes round as well
C5_WitnessEmpty ==
  /\ Returned /\ op.entry = "readAll" /\ op.src.by = "write" /\ op.src.fd = op.fd
  /\ op.data = <<>> /\ AllSucceeded
  /\ op.src.data = <<>> /\ ret = [kind |-> "data", val |-> <<>>]

\* C6: writeString(d, s) without newline onto an empty stream, the host
\* accepting the whole vector, followed by readString(d), every host read
\* succeeding, returns s; the decoder is handed exactly utf8(s), the bytes
\* writeString submitted.
C6_StringRoundTrip ==
  (Returned /\ op.entry = "readString" /\ op.src.by = "writeString" /\ op.src.fd = op.fd
     /\ AllSucceeded) =>
    /\ op.pre = RefUtf8(op.src.data)
    /\ loc.data = op.pre
    /\ ret = [kind |-> "text", val |-> op.src.data]

C6_Witness ==
  /\ Returned /\ op.entry = "readString" /\ op.src.by = "writeString" /\ op.src.fd = op.fd
  /\ AllSucceeded
  /\ op.src.data = <<233>> /\ ret.val = <<233>> /\ loc.data = <<195, 169>>

\* C8: in the loop of readAll a failed host read ends the loop at once: it is
\* the last call made, nothing of it is appended, and what the successful
\* calls before it delivered is what readAll returns.
C8_ReadAllStopsOnFailure ==
  InReadAll =>
    /\ \A i \in 1..(Len(sys) - 1) : sys[i].status = SUCCESS /\ sys[i].count > 0
    /\ (Len(sys) > 0 /\ sys[Len(sys)].status # SUCCESS) =>
         /\ Returned
         /\ loc.data = (IF op.entry = "readAll" THEN op.data ELSE <<>>) \o Delivered(Len(sys) - 1)
         /\ op.entry = "readAll" => ret = [kind |-> "data", val |-> loc.data]
         /\ stream[op.fd] = SubSeq(op.pre, Len(Delivered(Len(sys) - 1)) + 1, Len(op.pre))

\* a chunk is read, then the host fails with bytes still unread
C8_Witness ==
  /\ Returned /\ op.entry = "readAll" /\ Len(sys) = 2
  /\ sys[1].status = SUCCESS /\ sys[1].count = 1 /\ sys[2].status # SUCCESS
  /\ op.data = <<7>> /\ op.pre = <<65, 10>>
  /\ ret = [kind |-> "data", val |-> <<7, 65>>]
  /\ stream[op.fd] = <<10>>

\* C9: when the host read made by read fails, read acts on a count of zero:
\* it returns the no-data sentinel and appends nothing to the target.
C9_FailedReadIsEndOfStream ==
  (Returned /\ op.entry = "read" /\ sys[1].status # SUCCESS) =>
    /\ loc.read = 0
    /\ ret.kind = "null"
    /\ loc.data = op.data

\* C10: readAll never returns the no-data sentinel, it returns the target; so
\* readString never returns it either, and returns the text decoded from what
\* was accumulated (the empty text when nothing was).
C10_ReadAllNeverNull ==
  /\ (Returned /\ op.entry = "readAll") => ret = [kind |-> "data", val |-> loc.data]
  /\ (Returned /\ op.entry = "readString") =>
       /\ ret.kind \in {"text", "trap"}
       /\ ret.kind = "text" => ret.val = fromUTF8(loc.data)
       /\ loc.data = <<>> => ret = [kind |-> "text", val |-> <<>>]

\* the first host read fails
C10_Witness ==
  /\ Returned /\ op.entry = "readString" /\ op.pre # <<>>
  /\ Len(sys) = 1 /\ sys[1].status # SUCCESS
  /\ ret = [kind |-> "text", val |-> <<>>]

\* readAll at end of stream at once
C10_WitnessEof ==
  /\ Returned /\ op.entry = "readAll" /\ op.pre = <<>> /\ op.data = <<>>
  /\ AllSucceeded /\ ret = [kind |-> "data", val |-> <<>>]

\* the bytes a text-writing invocation is to submit: utf8(s), then 10 when the
\* newline flag is set
TextBytes == RefUtf8(op.s) \o (IF op.newline THEN <<10>> ELSE <<>>)

\* every host call of the invocation is a call of kind call on descriptor fd
OnlyCalls(call, fd) == \A i \in 1..Len(sys) : sys[i].call = call /\ sys[i].fd = fd

\* C11: Console delegates on fixed descriptors: every host write caused by
\* Console.write or Console.log is on descriptor 1, by Console.error on
\* descriptor 2, every host read caused by Console.readAll on descriptor 0;
\* with the newline flag at its default (set) the write submits utf8(s) then 10.
C11_ConsoleDescriptors ==
  /\ op.entry \in {"Console.write", "Console.log"} => OnlyCalls("fd_write", 1)
  /\ op.entry = "Console.error" => OnlyCalls("fd_write", 2)
  /\ op.entry = "Console.readAll" => OnlyCalls("fd_read", 0)
  /\ op.entry = "Console.log" => op.newline
  /\ (Returned /\ op.entry \in {"Console.write", "Console.log", "Console.error"}) =>
       /\ Len(sys) = 1
       /\ sys[1].bytes = TextBytes
       /\ op.newline => sys[1].bytes = RefUtf8(op.s) \o <<10>>
       /\ \A d \in FDS \ {sys[1].fd} : stream[d] = <<>>

C11_Witness ==
  /\ Returned /\ op.entry = "Console.error" /\ op.newline /\ op.s = <<65>>
  /\ sys[1].fd = 2 /\ sys[1].bytes = <<65, 10>> /\ stream[2] = <<65, 10>>

C11_WitnessLog ==
  /\ Returned /\ op.entry = "Console.log" /\ op.s = <<65>>
  /\ sys[1].fd = 1 /\ stream[1] = <<65, 10>>

C11_WitnessReadAll ==
  /\ Returned /\ op.entry = "Console.readAll" /\ op.pre = <<195, 169>>
  /\ Len(sys) >= 2 /\ ret = [kind |-> "text", val |-> <<233>>]

\* C12: writeString(d, s, false) makes exactly one write call with a one-entry
\* vector whose bytes are utf8(s), nothing after them; writeString(d, s, true)
\* makes no call of its own and does what writeStringLn(d, s) does: one write
\* call with the two-entry vector, submitting utf8(s) then 10.
C12_WriteStringCalls ==
  (Returned /\ op.entry = "writeString") =>
    /\ Len(sys) = 1
    /\ sys[1].call = "fd_write"
    /\ sys[1].fd = op.fd
    /\ sys[1].vec[1] = [buf |-> loc.buf, len |-> Len(RefUtf8(op.s))]
    /\ ~op.newline => /\ sys[1].n = 1
                      /\ Len(sys[1].vec) = 1
                      /\ sys[1].bytes = RefUtf8(op.s)
    /\ op.newline => /\ sys[1].n = 2
                     /\ sys[1].vec[2] = [buf |-> loc.lf, len |-> 1]
                     /\ heap[loc.lf].cells[0] = 10
                     /\ sys[1].bytes = RefUtf8(op.s) \o <<10>>
    /\ stream[op.fd] = op.pre \o SubSeq(sys[1].bytes, 1, sys[1].count)

C12_Witness ==
  /\ Returned /\ op.entry = "writeString" /\ op.newline /\ op.s = <<65>>
  /\ sys[1].n = 2 /\ sys[1].status = SUCCESS /\ stream[op.fd] = <<65, 10>>

C12_WitnessPlain ==
  /\ Returned /\ op.entry = "writeString" /\ ~op.newline /\ op.s = <<233>>
  /\ sys[1].n = 1 /\ sys[1].status = SUCCESS /\ stream[op.fd] = <<195, 169>>

\* C13: write(d, b) calls the host write exactly once, with a one-entry vector
\* whose length field is |b| and whose region holds the bytes of b in order;
\* whatever count or status the host reports there is no second call and
\* nothing is returned, so a host accepting k < |b| bytes leaves the first k
\* bytes of b on the stream and no more.
C13_WriteOnce ==
  op.entry = "write" =>
    /\ Len(sys) <= 1
    /\ pc = "write_sys" => Len(sys) = 0
    /\ Returned =>
         /\ Len(sys) = 1
         /\ sys[1].call = "fd_write"
         /\ sys[1].fd = op.fd
         /\ sys[1].n = 1
         /\ sys[1].vec = << [buf |-> loc.buf, len |-> Len(op.data)] >>
         /\ sys[1].bytes = op.data
         /\ ret = [kind |-> "void", val |-> <<>>]
         /\ stream[op.fd] = op.pre \o SubSeq(op.data, 1, sys[1].count)

C13_Witness ==
  /\ Returned /\ op.entry = "write" /\ op.data = <<65, 10>> /\ op.pre = <<>>
  /\ Len(sys) = 1 /\ sys[1].status = SUCCESS /\ sys[1].count = 1
  /\ stream[op.fd] = <<65>>

C13_WitnessFailed ==
  /\ Returned /\ op.entry = "write" /\ op.data = <<65>>
  /\ Len(sys) = 1 /\ sys[1].status = EIO /\ stream[op.fd] = op.pre

\* C14: read(d, target, c) calls the host read exactly once, with a one-entry
\* vector of length c over a chunk buffer of size c; when that call reports a
\* positive count n, n <= c and target is afterwards what it was before
\* followed by the first n bytes the host delivered, in order, and that
\* sequence is what read returns.
C14_ReadOnce ==
  op.entry = "read" =>
    /\ Len(sys) <= 1
    /\ pc = "read_sys" => Len(sys) = 0
    /\ Returned =>
         /\ Len(sys) = 1
         /\ sys[1].call = "fd_read"
         /\ sys[1].fd = op.fd
         /\ sys[1].n = 1
         /\ sys[1].vec = << [buf |-> loc.buf, len |-> op.chunk] >>
         /\ heap[loc.buf].size = op.chunk
         /\ sys[1].count > 0 =>
              /\ sys[1].count <= op.chunk
              /\ Len(sys[1].bytes) = sys[1].count
              /\ sys[1].bytes = SubSeq(op.pre, 1, sys[1].count)
              /\ loc.data = op.data \o sys[1].bytes
              /\ ret = [kind |-> "data", val |-> op.data \o sys[1].bytes]

C14_Witness ==
  /\ Returned /\ op.entry = "read" /\ op.data = <<7>> /\ op.chunk = 2
  /\ op.pre = <<65, 10>> /\ sys[1].count = 2
  /\ ret = [kind |-> "data", val |-> <<7, 65, 10>>]

C14_WitnessShort ==
  /\ Returned /\ op.entry = "read" /\ op.chunk = 2 /\ op.pre = <<65, 10>>
  /\ sys[1].count = 1 /\ ret.val = op.data \o <<65>> /\ stream[op.fd] = <<10>>

\* the operation is between its entry and its return: a host call is pending
InCall == pc # "idle"

\* C15: at every host write or read call each (address, length) entry of the
\* vector passed refers to a region that is allocated and not freed, the
\* vector region itself is allocated and not freed, and the entry count passed
\* (1 or 2) is the number of entries stored in the vector; no region is freed
\* while a host call of the invocation is still to be made or to return.
C15_VectorAlive ==
  /\ \A i \in 1..Len(sys) :
       /\ sys[i].alive
       /\ sys[i].n \in {1, 2}
       /\ sys[i].stored = sys[i].n
       /\ Len(sys[i].vec) = sys[i].n
  /\ InCall =>
       /\ \A a \in Allocated : heap[a].frees = 0
       /\ Live(heap, loc.iov) /\ Live(heap, loc.buf) /\ Live(heap, loc.ptr)
       /\ pc = "writeStringLn_sys" => Live(heap, loc.lf)

C15_Witness ==
  /\ Returned /\ op.entry = "writeStringLn" /\ op.s = <<65>>
  /\ Len(sys) = 1 /\ sys[1].n = 2 /\ sys[1].stored = 2 /\ sys[1].alive
  /\ heap[loc.buf].frees = 1

C15_WitnessLoop ==
  /\ pc = "readAll_sys" /\ Len(sys) = 1 /\ sys[1].count > 0
  /\ sys[1].alive /\ Live(heap, loc.buf) /\ Live(heap, loc.iov)

\* the bytes the current write-type invocation is to emit
Emits == IF op.entry = "write" THEN op.data ELSE TextBytes

\* a step in which the host write call of the current invocation returns,
\* having accepted the whole vector
FullWriteStep ==
  /\ pc \in {"write_sys", "writeString_sys", "writeStringLn_sys"}
  /\ pc' = "idle"
  /\ sys'[Len(sys')].status = SUCCESS
  /\ sys'[Len(sys')].count = Len(sys'[Len(sys')].bytes)

\* C16: every write, writeString and writeStringLn call whose vector the host
\* accepts whole extends the stream behind its descriptor by exactly the bytes
\* of that call, after everything emitted before it and with no other stream
\* touched; so a sequence of such calls on one descriptor leaves the
\* concatenation of their bytes in call order, the text and the newline of a
\* writeStringLn call adjacent.
C16_EmittedInCallOrder ==
  [][ FullWriteStep =>
        /\ stream' = [stream EXCEPT ![op.fd] = @ \o Emits]
        /\ stream[op.fd] = op.pre
        /\ Len(sys') = 1 ]_vars

C16_Witness ==
  /\ Returned /\ op.entry = "writeStringLn" /\ op.s = <<>>
  /\ op.src = [by |-> "write", fd |-> op.fd, data |-> <<65>>]
  /\ op.pre = <<65>> /\ sys[1].status = SUCCESS /\ sys[1].count = 1
  /\ stream[op.fd] = <<65, 10>>

C16_WitnessAdjacent ==
  /\ Returned /\ op.entry = "writeStringLn" /\ op.s = <<65>> /\ op.pre = <<>>
  /\ sys[1].status = SUCCESS /\ sys[1].count = 2 /\ stream[op.fd] = <<65, 10>>

C16_WitnessMixed ==
  /\ Returned /\ op.entry = "write" /\ op.data = <<10>>
  /\ op.src = [by |-> "writeString", fd |-> op.fd, data |-> <<65>>]
  /\ op.pre = <<65>> /\ sys[1].count = 1 /\ stream[op.fd] = <<65, 10>>

\* C17: the chunk_size argument of readString(d, chunk_size) is the chunk
\* size used for reading: the chunk buffer allocated on behalf of the call has
\* size chunk_size and every host read call made on its behalf is given a
\* vector entry of length chunk_size.
C17_ReadStringChunkSize ==
  (op.entry = "readString" /\ loc.buf # 0) =>
    /\ heap[loc.buf].size = op.chunk
    /\ \A i \in 1..Len(sys) : sys[i].vec[1].len = op.chunk

\* the host calls the loop of readAll made so far: at most one more than the
\* stream held at entry; all those before the last succeeded with a positive
\* count, and so did the last while the loop goes on; the loop is left on a
\* call that failed or reported no byte
ReadAllCallsBounded ==
  InReadAll =>
    /\ Len(sys) <= Len(op.pre) + 1
    /\ \A i \in 1..(Len(sys) - 1) : sys[i].status = SUCCESS /\ sys[i].count > 0
    /\ (pc = "readAll_sys" /\ Len(sys) > 0) =>
         sys[Len(sys)].status = SUCCESS /\ sys[Len(sys)].count > 0
    /\ Returned =>
         /\ Len(sys) >= 1
         /\ sys[Len(sys)].status # SUCCESS \/ sys[Len(sys)].count = 0

\* C18: readAll terminates on every finite stream: with a host that delivers
\* at least one byte per successful read while bytes are unread and reports
\* no byte or a failure once the stream is exhausted, the loop makes at most
\* L + 1 host read calls for a stream of L bytes and then returns; it goes on
\* only while a call both succeeds and reports a positive count.
C18_ReadAllTerminates ==
  /\ []ReadAllCallsBounded
  /\ (pc = "readAll_sys") ~> (pc = "idle" /\ InReadAll)

C18_Witness ==
  /\ Returned /\ op.entry = "readAll" /\ op.chunk = 1 /\ op.pre = <<65, 10>>
  /\ Len(sys) = 3 /\ sys[3].status = SUCCESS /\ sys[3].count = 0
  /\ ret = [kind |-> "data", val |-> op.data \o <<65, 10>>]

C18_WitnessFailure ==
  /\ Returned /\ op.entry = "readAll" /\ op.pre = <<65, 10>>
  /\ Len(sys) = 2 /\ sys[1].count = 1 /\ sys[2].status = EIO
  /\ stream[op.fd] = <<10>>

====
